---- MODULE Spec2Model ----
(***************************************************************************)
(* Gestor de Laboratorios: the schedule compiler (GET                      *)
(* /laboratorios/{id}/horario), the booking transaction (POST /reservas,   *)
(* PUT /reservas/{id}/cancelar) and the administration endpoints that      *)
(* change what they read, as implemented in src/main.py over the tables of *)
(* src/core/models.py.                                                     *)
(*                                                                         *)
(* Time is discrete: a day has TicksPorDia ticks, a datetime is            *)
(* fecha * TicksPorDia + hora, all datetimes in UTC once normalised.       *)
(* Rows carry the primary key "id"; the model hands out the smallest free  *)
(* id (ids are opaque handles, only used to address a row).                *)
(***************************************************************************)
EXTENDS Integers, Sequences, FiniteSets, TLC

\* SQL NULL / Python None in a nullable integer or time column.
NULL == -100

\* The loan rules of the loans view, times of day in minutes after 00:00.
CLASS_START == 420
CLASS_END == 870
MAX_LOAN_HOURS == 7

\* Bounds of the model.
TicksPorDia == 3
NumFechas == 2
MaxReglas == 2
MaxExcepciones == 2
MaxReservas == 2
MaxRecursos == 1
MaxPrestamos == 2

Horas == 0..(TicksPorDia - 1)
Fechas == 0..(NumFechas - 1)
LabIds == {1, 2}
UserIds == {1, 2, 3}
Procs == {1, 2}

\* The role each access token carries (security.get_current_user reads the
\* role from the token, not from the store).
RolDe(u) == CASE u = 1 -> "admin" [] u = 2 -> "docente" [] OTHER -> "estudiante"

VARIABLES
  usuarios,       \* ids of the rows of table usuarios
  labs,           \* ids of the rows of table laboratorios
  labs_cache,     \* keys of labs_cache_main
  reglas,         \* rows of table reglas_horario
  excepciones,    \* rows of table excepciones_horario
  reservas,       \* rows of table reservas
  recursos,       \* rows of table recursos
  prestamos,      \* rows of table prestamos
  hoja,           \* the request sheet of the loans view (bs_solicitud)
  req,            \* per worker: the create_reserva request it is serving
  ult,            \* the last completed API call and its response
  horario         \* the body of the last GET horario response

vars == <<usuarios, labs, labs_cache, reglas, excepciones, reservas, recursos, prestamos,
         hoja, req, ult, horario>>

-----------------------------------------------------------------------------
\* datetime helpers

\* datetime.combine(fecha, hora)
Combine(f, h) == f * TicksPorDia + h
\* datetime.date()
FechaDe(dt) == dt \div TicksPorDia
\* date.weekday(); fecha 0 is a Monday
Weekday(f) == f % 7

\* A request datetime is <<t, tz>>: a wall-clock value t with tz = NULL
\* (naive) or a UTC offset in ticks. replace(tzinfo=utc) keeps t,
\* astimezone(utc) subtracts the offset.
ToUTC(dt) == IF dt[2] = NULL THEN dt[1] ELSE dt[1] - dt[2]

-----------------------------------------------------------------------------
\* rows and query results

Ids(tabla) == {r.id : r \in tabla}
Fila(tabla, i) == CHOOSE r \in tabla : r.id = i
NuevoId(tabla) == CHOOSE i \in 1..(Cardinality(tabla) + 1) :
                    i \notin Ids(tabla)

\* The orders in which a query without a total ORDER BY may return the rows
\* of a table: every permutation of the ids.
Ordenes(tabla) ==
  {o \in [1..Cardinality(tabla) -> Ids(tabla)] :
     \A i, j \in 1..Cardinality(tabla) : i # j => o[i] # o[j]}
Filas(tabla, ord) == [i \in 1..Len(ord) |-> Fila(tabla, ord[i])]

\* list.sort that leaves the list as it is.
MutSinOrdenar(s, k) == s

\* list.sort(key=...): stable, ascending. s are the values, k their keys.
RECURSIVE SortEstable(_, _)
SortEstable(s, k) ==
  IF Len(s) <= 1 THEN s
  ELSE LET m == CHOOSE i \in 1..Len(s) :
                  \A j \in 1..Len(s) : k[i] < k[j] \/ (k[i] = k[j] /\ i <= j)
           quitar(q) == [j \in 1..(Len(q) - 1) |-> IF j < m THEN q[j] ELSE q[j + 1]]
       IN <<s[m]>> \o SortEstable(quitar(s), quitar(k))

\* SQL "x IN (lista)": never true for a NULL x, and a NULL in the list
\* matches nothing.
SqlIn(x, lista) == x # NULL /\ x \in (lista \ {NULL})

-----------------------------------------------------------------------------
\* get_horario_laboratorio

reglas_generales(ordR) ==
  SelectSeq(Filas(reglas, ordR), LAMBDA r : r.laboratorio_id = NULL)

reglas_especificas(lab_id, ordR) ==
  SelectSeq(Filas(reglas, ordR), LAMBDA r : r.laboratorio_id = lab_id)

\* list.sort(key=lambda r: r.hora_inicio)
OrdenarPorHora(lista) ==
  SortEstable(lista, [i \in 1..Len(lista) |-> lista[i].hora_inicio])

\* The general rules and the lab's rules of a weekday in one list.
MutReglasPorDia(lab_id, dia, ordR) ==
  OrdenarPorHora(SelectSeq(reglas_generales(ordR), LAMBDA r : r.dia_semana = dia)
                 \o SelectSeq(reglas_especificas(lab_id, ordR), LAMBDA r : r.dia_semana = dia))

\* The second loop replaces the list of a weekday by the lab's own rules
\* when it has any: esp if not empty, else gen.
ReglasDelDia(esp, gen) == IF Len(esp) > 0 THEN esp ELSE gen

\* reglas_por_dia[dia]: the specific rules of the weekday when the lab has
\* any, else the general ones; sorted by hora_inicio.
reglas_por_dia(lab_id, dia, ordR) ==
  OrdenarPorHora(
    ReglasDelDia(SelectSeq(reglas_especificas(lab_id, ordR), LAMBDA r : r.dia_semana = dia),
                 SelectSeq(reglas_generales(ordR), LAMBDA r : r.dia_semana = dia)))

\* The rows of the list reglas_por_dia[dia] before it is sorted: the lab's
\* own rules of the weekday when it has any, else the general ones.
FilasDelDia(esp, gen) == IF esp # {} THEN esp ELSE gen
filas_por_dia(lab_id, dia) ==
  FilasDelDia({r \in reglas : r.laboratorio_id = lab_id /\ r.dia_semana = dia},
              {r \in reglas : r.laboratorio_id = NULL /\ r.dia_semana = dia})

\* The sort compares the keys of neighbours: on a list of two or more rules
\* one hora_inicio that is not a time raises TypeError.
SortFalla(filas) == Cardinality(filas) >= 2 /\ \E r \in filas : r.hora_inicio = NULL

\* "for dia in reglas_por_dia: reglas_por_dia[dia].sort(...)" raises: the
\* loop runs over every weekday of the lab's lists, not only those of the
\* range asked for.
OrdenarReglasFalla(lab_id) ==
  \E dia \in {r.dia_semana : r \in reglas} : SortFalla(filas_por_dia(lab_id, dia))

\* isinstance(s_time, time) and isinstance(f_time, time)
HorasValidas(regla) == regla.hora_inicio # NULL /\ regla.hora_fin # NULL

\* ORDER BY fecha, hora_inicio within one fecha: NULLs last, ties in the
\* order the rows come in.
OrdenarExcepciones(filas) ==
  SortEstable(filas, [i \in 1..Len(filas) |->
    IF filas[i].hora_inicio = NULL THEN TicksPorDia ELSE filas[i].hora_inicio])

\* excepciones_por_fecha[fecha]: the query filters laboratorio_id IN
\* (lab_id, NULL) and orders by fecha, hora_inicio; ties come in any order.
excepciones_hoy(lab_id, fecha, ordE) ==
  OrdenarExcepciones(
    SelectSeq(Filas(excepciones, ordE),
      LAMBDA ex : SqlIn(ex.laboratorio_id, {lab_id, NULL}) /\ ex.fecha = fecha))

\* next((ex for ex in s if test(ex)), None), with b[i] the value of the
\* test on s[i]: the index of the first match, 0 for None.
Primero(b) ==
  IF \E i \in DOMAIN b : b[i]
  THEN CHOOSE i \in DOMAIN b : b[i] /\ \A j \in 1..(i - 1) : ~b[j]
  ELSE 0

\* excepcion_dia_completo or excepcion_dia_completo_general, as indexes of
\* hoy (0 for None).
ex_completa_aplicable(esp, gen) == IF esp # 0 THEN esp ELSE gen

\* ex_completa_aplicable and not ex_completa_aplicable.es_habilitado
DiaCerradoPor(hoy, i) == i # 0 /\ ~hoy[i].es_habilitado

DiaCerradoEn(hoy, lab_id) ==
  DiaCerradoPor(hoy,
    ex_completa_aplicable(
      Primero([i \in 1..Len(hoy) |->
                 hoy[i].laboratorio_id = lab_id /\ hoy[i].hora_inicio = NULL]),
      Primero([i \in 1..Len(hoy) |->
                 hoy[i].laboratorio_id = NULL /\ hoy[i].hora_inicio = NULL])))

DiaCerrado(lab_id, fecha, ordE) == DiaCerradoEn(excepciones_hoy(lab_id, fecha, ordE), lab_id)

\* reservas_existentes: the lab's bookings that are not cancelled and
\* intersect [fecha_inicio 00:00, fecha_fin + 1 day 00:00).
reservas_existentes(lab_id, fecha_inicio, fecha_fin) ==
  {r \in reservas : /\ r.laboratorio_id = lab_id
                    /\ r.estado # "cancelada"
                    /\ r.inicio < Combine(fecha_fin + 1, 0)
                    /\ r.fin > Combine(fecha_inicio, 0)}

\* The keys of reservas_map, as naive datetimes.
reservas_map(lab_id, fecha_inicio, fecha_fin) ==
  {r.inicio : r \in reservas_existentes(lab_id, fecha_inicio, fecha_fin)}

\* The loop over excepciones_hoy for a slot that is still 'disponible'
\* reaches "ex.tipo" (an attribute ExcepcionHorario does not have) exactly
\* when a time-bounded exception with es_habilitado false contains the slot.
LeeExTipo(regla, hoy) ==
  \E i \in 1..Len(hoy) :
      /\ hoy[i].hora_inicio # NULL /\ hoy[i].hora_fin # NULL
      /\ regla.hora_inicio >= hoy[i].hora_inicio
      /\ regla.hora_fin <= hoy[i].hora_fin
      /\ ~hoy[i].es_habilitado

\* slot_tipo before the occupancy and exception steps.
TipoRegla(regla) ==
  IF regla.tipo_intervalo # "" THEN regla.tipo_intervalo
  ELSE IF ~regla.es_habilitado THEN "no_habilitado" ELSE "disponible"

\* slot_tipo of the slot of one rule, tipo being its value before the
\* occupancy and exception steps; "AttributeError" when the loop raises.
TipoFinal(tipo, regla, fecha, hoy, rmap) ==
  IF tipo # "disponible" THEN tipo
  ELSE IF Combine(fecha, regla.hora_inicio) \in rmap THEN "reservado"
  ELSE IF LeeExTipo(regla, hoy) THEN "AttributeError"
  ELSE "disponible"

slot_tipo(regla, fecha, hoy, rmap) == TipoFinal(TipoRegla(regla), regla, fecha, hoy, rmap)

\* slots_del_dia.sort(key=lambda x: x.inicio)
OrdenarPorInicio(s) == SortEstable(s, [i \in 1..Len(s) |-> s[i].inicio])

\* The slots of the rules usar, in their order; regla is the id of the
\* rule the slot was materialised from (not part of SlotHorario).
SlotsDeValidas(usar, fecha, hoy, rmap) ==
  [i \in 1..Len(usar) |->
     [inicio |-> Combine(fecha, usar[i].hora_inicio),
      fin |-> Combine(fecha, usar[i].hora_fin),
      tipo |-> slot_tipo(usar[i], fecha, hoy, rmap),
      regla |-> usar[i].id]]

\* The loop over reglas_a_usar: a rule whose hora_inicio or hora_fin is not
\* a time is skipped ("continue").
SlotsDe(usar, fecha, hoy, rmap) ==
  SlotsDeValidas(SelectSeq(usar, HorasValidas), fecha, hoy, rmap)

\* One iteration of the while loop with excepciones_hoy = hoy.
SlotsConExcepciones(hoy, lab_id, fecha, rmap, ordR) ==
  IF DiaCerradoEn(hoy, lab_id) THEN << >>
  ELSE OrdenarPorInicio(
         SlotsDe(reglas_por_dia(lab_id, Weekday(fecha), ordR), fecha, hoy, rmap))

\* horario_final[fecha]
slots_del_dia(lab_id, fecha, rmap, ordR, ordE) ==
  SlotsConExcepciones(excepciones_hoy(lab_id, fecha, ordE), lab_id, fecha, rmap, ordR)

\* The response for horario_final = dias: 500 when an iteration raised.
HorarioFinal(dias) ==
  IF \E f \in DOMAIN dias : \E i \in 1..Len(dias[f]) : dias[f][i].tipo = "AttributeError"
  THEN [status |-> 500, dias |-> << >>]
  ELSE [status |-> 200, dias |-> dias]

\* The days of the response for reservas_map = rmap.
DiasCon(rmap, lab_id, fecha_inicio, fecha_fin, ordR, ordE) ==
  [f \in fecha_inicio..fecha_fin |-> slots_del_dia(lab_id, f, rmap, ordR, ordE)]

\* The response of GET /laboratorios/{lab_id}/horario.
get_horario_laboratorio(lab_id, fecha_inicio, fecha_fin, ordR, ordE) ==
  IF lab_id \notin labs THEN [status |-> 404, dias |-> << >>]
  ELSE IF OrdenarReglasFalla(lab_id) THEN [status |-> 500, dias |-> << >>]
  ELSE HorarioFinal(DiasCon(reservas_map(lab_id, fecha_inicio, fecha_fin),
                            lab_id, fecha_inicio, fecha_fin, ordR, ordE))

-----------------------------------------------------------------------------
\* responses

\* The last completed call: the endpoint, the token's user id, the id of the
\* row addressed or created, the error ("ok" for a 2xx response) and what
\* the calendar collaborator did ("-" when it was not called).
Resp(op, caller, id, error, cal) ==
  [op |-> op, caller |-> caller, id |-> id, error |-> error, cal |-> cal]
SinResp == Resp("-", NULL, NULL, "ok", "-")
SinHorario == [status |-> 0, lab |-> NULL, desde |-> NULL, hasta |-> NULL, dias |-> << >>]
ReqLibre == [pc |-> "libre", caller |-> NULL, lab |-> NULL, usuario |-> NULL,
             inicio |-> NULL, fin |-> NULL]
\* The sheet before it was ever opened: _solicitar_recurso_id and
\* _inicio_preview are None, the slider has its constructor's maximum.
HojaCerrada == [abierta |-> FALSE, recurso |-> NULL, ahora |-> NULL, inicio |-> NULL,
                horas_max |-> MAX_LOAN_HOURS]

\* What calendar_service.create_calendar_event / delete_calendar_event may do
\* from the handler's point of view: return an id / True, return None /
\* False, or raise. (create_calendar_event as called by create_reserva, with
\* attendees=, raises TypeError; the handler treats all three alike.)
CalendarOutcomes == {"id", "none", "raise"}

-----------------------------------------------------------------------------
\* create_reserva

\* slot_valido_encontrado that accepts an interval inside an available slot.
MutSlotParcial(h, inicio, fin) ==
  LET hoy == IF FechaDe(inicio) \in DOMAIN h.dias THEN h.dias[FechaDe(inicio)] ELSE << >>
  IN \E i \in 1..Len(hoy) :
       hoy[i].inicio <= inicio /\ fin <= hoy[i].fin /\ hoy[i].tipo = "disponible"

\* slot_valido_encontrado
slot_valido_encontrado(h, inicio, fin) ==
  LET hoy == IF FechaDe(inicio) \in DOMAIN h.dias THEN h.dias[FechaDe(inicio)] ELSE << >>
  IN \E i \in 1..Len(hoy) :
       hoy[i].inicio = inicio /\ hoy[i].fin = fin /\ hoy[i].tipo = "disponible"

\* The first query of "Verificar solapamiento".
overlapping(lab_id, inicio, fin) ==
  \E r \in reservas : /\ r.laboratorio_id = lab_id
                      /\ r.estado # "cancelada"
                      /\ r.inicio < fin
                      /\ r.fin > inicio

\* "Validación de Horario" on the answer h of get_horario_laboratorio: its
\* HTTPException is passed on, any other exception becomes a 500.
ValidarHorario(h, inicio, fin) ==
  IF h.status = 404 THEN "NotFoundLab"
  ELSE IF h.status = 500 THEN "Error500"
  ELSE IF ~slot_valido_encontrado(h, inicio, fin) THEN "SlotUnavailable"
  ELSE "ok"

\* The validations with the interval checked before the lab and the user.
MutValidarIntervaloAntes(reserva, user, inicio, fin, ordR, ordE) ==
  IF RolDe(user) \notin {"admin", "docente"} THEN "Forbidden"
  ELSE IF inicio >= fin THEN "InvalidInterval"
  ELSE IF reserva.laboratorio_id \notin labs_cache /\ reserva.laboratorio_id \notin labs
       THEN "NotFoundLab"
  ELSE IF reserva.usuario_id \notin usuarios THEN "NotFoundUsuario"
  ELSE ValidarHorario(get_horario_laboratorio(reserva.laboratorio_id, FechaDe(inicio),
                                              FechaDe(inicio), ordR, ordE), inicio, fin)

\* The validations up to and including "Validación de Horario" for the
\* body reserva and the token's user, inicio and fin already normalised:
\* the error raised, or "ok".
ValidarReserva(reserva, user, inicio, fin, ordR, ordE) ==
  IF RolDe(user) \notin {"admin", "docente"} THEN "Forbidden"
  ELSE IF reserva.laboratorio_id \notin labs_cache /\ reserva.laboratorio_id \notin labs
       THEN "NotFoundLab"
  ELSE IF reserva.usuario_id \notin usuarios THEN "NotFoundUsuario"
  ELSE IF inicio >= fin THEN "InvalidInterval"
  ELSE ValidarHorario(get_horario_laboratorio(reserva.laboratorio_id, FechaDe(inicio),
                                              FechaDe(inicio), ordR, ordE), inicio, fin)

\* "Verificar solapamiento" after the validations ended with e.
VerificarSolape(e, lab_id, inicio, fin) ==
  IF e # "ok" THEN e
  ELSE IF overlapping(lab_id, inicio, fin) THEN "Conflict"
  ELSE "ok"

\* All the checks of create_reserva, run without interruption.
ErrorReserva(reserva, user, ordR, ordE) ==
  VerificarSolape(ValidarReserva(reserva, user, ToUTC(reserva.inicio), ToUTC(reserva.fin),
                                 ordR, ordE),
                  reserva.laboratorio_id, ToUTC(reserva.inicio), ToUTC(reserva.fin))

\* new_reserva after db.add, db.commit and the calendar call.
NuevaReserva(lab_id, usuario_id, inicio, fin, cal) ==
  [id |-> NuevoId(reservas), usuario_id |-> usuario_id, laboratorio_id |-> lab_id,
   inicio |-> inicio, fin |-> fin, estado |-> "activa",
   google_event_id |-> IF cal = "id" THEN "ev" ELSE ""]

\* create_reserva that adds the row before the overlap query and does not
\* roll it back when the query finds a booking.
MutCreateSinRollback(reserva, user, ordR, ordE, cal) ==
  LET e == ErrorReserva(reserva, user, ordR, ordE)
  IN /\ IF e \notin {"ok", "Conflict"}
        THEN /\ reservas' = reservas
             /\ ult' = Resp("create_reserva", user, NULL, e, "-")
        ELSE /\ reservas' = reservas \cup
                  {NuevaReserva(reserva.laboratorio_id, reserva.usuario_id,
                                ToUTC(reserva.inicio), ToUTC(reserva.fin), cal)}
             /\ ult' = IF e = "ok"
                       THEN Resp("create_reserva", user, NuevoId(reservas), "ok", cal)
                       ELSE Resp("create_reserva", user, NULL, e, "-")
     /\ horario' = SinHorario
     /\ UNCHANGED <<recursos, prestamos, hoja, usuarios, labs, labs_cache, reglas, excepciones, req>>

\* create_reserva without the inner try/except around the calendar call:
\* an exception of the collaborator reaches the outer handler, which
\* answers 400 after the row was committed.
MutCreateCalendarioPropaga(reserva, user, ordR, ordE, cal) ==
  LET e == ErrorReserva(reserva, user, ordR, ordE)
  IN /\ IF e # "ok"
        THEN /\ reservas' = reservas
             /\ ult' = Resp("create_reserva", user, NULL, e, "-")
        ELSE /\ reservas' = reservas \cup
                  {NuevaReserva(reserva.laboratorio_id, reserva.usuario_id,
                                ToUTC(reserva.inicio), ToUTC(reserva.fin), cal)}
             /\ ult' = Resp("create_reserva", user, NuevoId(reservas),
                            IF cal = "raise" THEN "BadRequest" ELSE "ok", cal)
     /\ horario' = SinHorario
     /\ UNCHANGED <<recursos, prestamos, hoja, usuarios, labs, labs_cache, reglas, excepciones, req>>

\* POST /reservas served without interruption; cal is what the calendar
\* collaborator does when it is called.
create_reserva(reserva, user, ordR, ordE, cal) ==
  \E e \in {ErrorReserva(reserva, user, ordR, ordE)} :
     /\ IF e # "ok"
        THEN /\ reservas' = reservas
             /\ ult' = Resp("create_reserva", user, NULL, e, "-")
        ELSE /\ reservas' = reservas \cup
                  {NuevaReserva(reserva.laboratorio_id, reserva.usuario_id,
                                ToUTC(reserva.inicio), ToUTC(reserva.fin), cal)}
             /\ ult' = Resp("create_reserva", user, NuevoId(reservas), "ok", cal)
     /\ horario' = SinHorario
     /\ UNCHANGED <<recursos, prestamos, hoja, usuarios, labs, labs_cache, reglas, excepciones, req>>

\* create_reserva served by worker p next to other workers, each in its own
\* session (READ COMMITTED): the validations, the overlap query and the
\* insert are separate statements, and other requests may commit in between.
create_reserva_validar(p, reserva, user, ordR, ordE) ==
  /\ req[p].pc = "libre"
  /\ \E e \in {ValidarReserva(reserva, user, ToUTC(reserva.inicio), ToUTC(reserva.fin),
                              ordR, ordE)} :
       IF e # "ok"
       THEN /\ ult' = Resp("create_reserva", user, NULL, e, "-")
            /\ req' = req
       ELSE /\ req' = [req EXCEPT ![p] =
                 [pc |-> "validado", caller |-> user, lab |-> reserva.laboratorio_id,
                  usuario |-> reserva.usuario_id,
                  inicio |-> ToUTC(reserva.inicio), fin |-> ToUTC(reserva.fin)]]
            /\ ult' = ult
  /\ UNCHANGED <<recursos, prestamos, hoja, usuarios, labs, labs_cache, reglas, excepciones, reservas, horario>>

create_reserva_solape(p) ==
  /\ req[p].pc = "validado"
  /\ IF overlapping(req[p].lab, req[p].inicio, req[p].fin)
     THEN /\ ult' = Resp("create_reserva", req[p].caller, NULL, "Conflict", "-")
          /\ req' = [req EXCEPT ![p] = ReqLibre]
     ELSE /\ req' = [req EXCEPT ![p].pc = "sin_solape"]
          /\ ult' = ult
  /\ UNCHANGED <<recursos, prestamos, hoja, usuarios, labs, labs_cache, reglas, excepciones, reservas, horario>>

create_reserva_commit(p, cal) ==
  /\ req[p].pc = "sin_solape"
  /\ reservas' = reservas \cup
       {NuevaReserva(req[p].lab, req[p].usuario, req[p].inicio, req[p].fin, cal)}
  /\ ult' = Resp("create_reserva", req[p].caller, NuevoId(reservas), "ok", cal)
  /\ req' = [req EXCEPT ![p] = ReqLibre]
  /\ UNCHANGED <<recursos, prestamos, hoja, usuarios, labs, labs_cache, reglas, excepciones, horario>>

\* cancel_reserva without the ownership check.
MutCancelarSinDueno(caller, reserva_id) ==
  IF reserva_id \notin Ids(reservas) THEN "NotFound"
  ELSE IF Fila(reservas, reserva_id).estado = "cancelada" THEN "YaCancelada"
  ELSE "ok"

\* The error cancel_reserva raises, or "ok".
ErrorCancelar(caller, reserva_id) ==
  IF reserva_id \notin Ids(reservas) THEN "NotFound"
  ELSE IF RolDe(caller) # "admin" /\ Fila(reservas, reserva_id).usuario_id # caller
       THEN "Forbidden"
  ELSE IF Fila(reservas, reserva_id).estado = "cancelada" THEN "YaCancelada"
  ELSE "ok"

\* PUT /reservas/{reserva_id}/cancelar; cal is what delete_calendar_event
\* does when the booking has a google_event_id ("id": it returns True).
cancel_reserva(caller, reserva_id, cal) ==
  LET e == ErrorCancelar(caller, reserva_id)
  IN /\ IF e # "ok"
        THEN /\ reservas' = reservas
             /\ ult' = Resp("cancel_reserva", caller, reserva_id, e, "-")
        ELSE LET r == Fila(reservas, reserva_id)
                 llamado == r.google_event_id # ""
             IN /\ reservas' = (reservas \ {r}) \cup
                      {[r EXCEPT !.estado = "cancelada",
                                 !.google_event_id = IF llamado /\ cal = "id" THEN "" ELSE @]}
                /\ ult' = Resp("cancel_reserva", caller, reserva_id, "ok",
                               IF llamado THEN cal ELSE "-")
     /\ horario' = SinHorario
     /\ UNCHANGED <<recursos, prestamos, hoja, usuarios, labs, labs_cache, reglas, excepciones, req>>

-----------------------------------------------------------------------------
\* administration

Regla(lab_id, dia, hi, hf, hab, tipo) ==
  [laboratorio_id |-> lab_id, dia_semana |-> dia, hora_inicio |-> hi, hora_fin |-> hf,
   es_habilitado |-> hab, tipo_intervalo |-> tipo]
ConId(fila, i) == [c \in (DOMAIN fila) \cup {"id"} |-> IF c = "id" THEN i ELSE fila[c]]

Excepcion(lab_id, fecha, hi, hf, hab) ==
  [laboratorio_id |-> lab_id, fecha |-> fecha, hora_inicio |-> hi, hora_fin |-> hf,
   es_habilitado |-> hab]

AdminResp(op, caller, id, error) == Resp(op, caller, id, error, "-")

\* POST /admin/horarios/reglas
create_regla_horario(caller, regla) ==
  LET e == IF RolDe(caller) # "admin" THEN "Forbidden"
           ELSE IF ~(0 <= regla.dia_semana /\ regla.dia_semana <= 6) THEN "BadRequest"
           ELSE IF regla.hora_inicio >= regla.hora_fin THEN "BadRequest"
           ELSE IF regla.laboratorio_id # NULL /\ regla.laboratorio_id \notin labs
                THEN "Error500"
           ELSE "ok"
  IN /\ IF e # "ok"
        THEN /\ reglas' = reglas
             /\ ult' = AdminResp("create_regla_horario", caller, NULL, e)
        ELSE /\ reglas' = reglas \cup {ConId(regla, NuevoId(reglas))}
             /\ ult' = AdminResp("create_regla_horario", caller, NuevoId(reglas), "ok")
     /\ horario' = SinHorario
     /\ UNCHANGED <<recursos, prestamos, hoja, usuarios, labs, labs_cache, excepciones, reservas, req>>

\* DELETE /admin/horarios/reglas/{regla_id}
delete_regla_horario(caller, regla_id) ==
  LET e == IF RolDe(caller) # "admin" THEN "Forbidden"
           ELSE IF regla_id \notin Ids(reglas) THEN "NotFound"
           ELSE "ok"
  IN /\ reglas' = IF e = "ok" THEN reglas \ {Fila(reglas, regla_id)} ELSE reglas
     /\ ult' = AdminResp("delete_regla_horario", caller, regla_id, e)
     /\ horario' = SinHorario
     /\ UNCHANGED <<recursos, prestamos, hoja, usuarios, labs, labs_cache, excepciones, reservas, req>>

\* POST /admin/horarios/excepciones
create_excepcion_horario(caller, ex) ==
  LET e == IF RolDe(caller) # "admin" THEN "Forbidden"
           ELSE IF (ex.hora_inicio # NULL /\ ex.hora_fin = NULL)
                   \/ (ex.hora_inicio = NULL /\ ex.hora_fin # NULL) THEN "BadRequest"
           ELSE IF ex.hora_inicio # NULL /\ ex.hora_fin # NULL
                   /\ ex.hora_inicio >= ex.hora_fin THEN "BadRequest"
           ELSE IF ex.laboratorio_id # NULL /\ ex.laboratorio_id \notin labs
                THEN "Error500"
           ELSE "ok"
  IN /\ IF e # "ok"
        THEN /\ excepciones' = excepciones
             /\ ult' = AdminResp("create_excepcion_horario", caller, NULL, e)
        ELSE /\ excepciones' = excepciones \cup {ConId(ex, NuevoId(excepciones))}
             /\ ult' = AdminResp("create_excepcion_horario", caller, NuevoId(excepciones), "ok")
     /\ horario' = SinHorario
     /\ UNCHANGED <<recursos, prestamos, hoja, usuarios, labs, labs_cache, reglas, reservas, req>>

\* DELETE /admin/horarios/excepciones/{excepcion_id}
delete_excepcion_horario(caller, excepcion_id) ==
  LET e == IF RolDe(caller) # "admin" THEN "Forbidden"
           ELSE IF excepcion_id \notin Ids(excepciones) THEN "NotFound"
           ELSE "ok"
  IN /\ excepciones' = IF e = "ok" THEN excepciones \ {Fila(excepciones, excepcion_id)}
                       ELSE excepciones
     /\ ult' = AdminResp("delete_excepcion_horario", caller, excepcion_id, e)
     /\ horario' = SinHorario
     /\ UNCHANGED <<recursos, prestamos, hoja, usuarios, labs, labs_cache, reglas, reservas, req>>

\* setattr(fila, key, value) for every key of update_data.
Actualizada(fila, update_data) ==
  [c \in DOMAIN fila |-> IF c \in DOMAIN update_data THEN update_data[c] ELSE fila[c]]

\* db.commit() of a row of reglas_horario or excepciones_horario fails when
\* a column declared NOT NULL holds NULL or laboratorio_id names no lab.
\* no_nulas are the NOT NULL columns a body can set to null here (the
\* booleans of the model are never null).
CommitFalla(fila, no_nulas) ==
  \/ \E c \in no_nulas : fila[c] = NULL
  \/ fila.laboratorio_id # NULL /\ fila.laboratorio_id \notin labs

\* PUT /admin/horarios/reglas/{regla_id}; update_data holds the fields the
\* body sets.
update_regla_horario(caller, regla_id, update_data) ==
  LET e == IF RolDe(caller) # "admin" THEN "Forbidden"
           ELSE IF regla_id \notin Ids(reglas) THEN "NotFound"
           ELSE IF DOMAIN update_data = {} THEN "BadRequest"
           ELSE IF "dia_semana" \in DOMAIN update_data
                   /\ ~(0 <= update_data.dia_semana /\ update_data.dia_semana <= 6)
                THEN "BadRequest"
           ELSE IF CommitFalla(Actualizada(Fila(reglas, regla_id), update_data),
                               {"dia_semana", "hora_inicio", "hora_fin"})
                THEN "Error500"
           ELSE "ok"
  IN /\ reglas' = IF e = "ok"
                  THEN (reglas \ {Fila(reglas, regla_id)})
                       \cup {Actualizada(Fila(reglas, regla_id), update_data)}
                  ELSE reglas
     /\ ult' = AdminResp("update_regla_horario", caller, regla_id, e)
     /\ horario' = SinHorario
     /\ UNCHANGED <<recursos, prestamos, hoja, usuarios, labs, labs_cache, excepciones,
                    reservas, req>>

\* PUT /admin/horarios/excepciones/{excepcion_id}
update_excepcion_horario(caller, excepcion_id, update_data) ==
  LET e == IF RolDe(caller) # "admin" THEN "Forbidden"
           ELSE IF excepcion_id \notin Ids(excepciones) THEN "NotFound"
           ELSE IF DOMAIN update_data = {} THEN "BadRequest"
           ELSE IF CommitFalla(Actualizada(Fila(excepciones, excepcion_id), update_data),
                               {"fecha"})
                THEN "Error500"
           ELSE "ok"
  IN /\ excepciones' = IF e = "ok"
                       THEN (excepciones \ {Fila(excepciones, excepcion_id)})
                            \cup {Actualizada(Fila(excepciones, excepcion_id), update_data)}
                       ELSE excepciones
     /\ ult' = AdminResp("update_excepcion_horario", caller, excepcion_id, e)
     /\ horario' = SinHorario
     /\ UNCHANGED <<recursos, prestamos, hoja, usuarios, labs, labs_cache, reglas, reservas,
                    req>>

\* DELETE /usuarios/{user_id}. Table reservas references usuarios with ON
\* DELETE CASCADE: the user's bookings go with the user. Table prestamos
\* references usuarios with ON DELETE RESTRICT: the delete fails while a
\* loan of the user is stored.
delete_user(caller, user_id) ==
  LET e == IF RolDe(caller) # "admin" THEN "Forbidden"
           ELSE IF user_id = caller THEN "Forbidden"
           ELSE IF user_id \notin usuarios THEN "NotFound"
           ELSE IF \E p \in prestamos : /\ p.usuario_id = user_id
                                        /\ p.estado \notin {"devuelto", "rechazado"}
                THEN "Conflict"
           ELSE IF \E p \in prestamos : p.usuario_id = user_id THEN "Error500"
           ELSE "ok"
  IN /\ usuarios' = IF e = "ok" THEN usuarios \ {user_id} ELSE usuarios
     /\ reservas' = IF e = "ok" THEN {r \in reservas : r.usuario_id # user_id} ELSE reservas
     /\ ult' = AdminResp("delete_user", caller, user_id, e)
     /\ horario' = SinHorario
     /\ UNCHANGED <<recursos, prestamos, hoja, labs, labs_cache, reglas, excepciones, req>>

\* POST /recursos
create_recurso(caller, recurso) ==
  LET e == IF RolDe(caller) # "admin" THEN "Forbidden"
           ELSE IF recurso.estado \notin {"disponible", "prestado", "mantenimiento"}
                THEN "BadRequest"
           ELSE IF recurso.laboratorio_id \notin labs THEN "NotFoundLab"
           ELSE "ok"
  IN /\ IF e # "ok"
        THEN /\ recursos' = recursos
             /\ ult' = AdminResp("create_recurso", caller, NULL, e)
        ELSE /\ recursos' = recursos \cup {ConId(recurso, NuevoId(recursos))}
             /\ ult' = AdminResp("create_recurso", caller, NuevoId(recursos), "ok")
     /\ horario' = SinHorario
     /\ UNCHANGED <<usuarios, labs, labs_cache, reglas, excepciones, reservas, prestamos,
                    hoja, req>>

\* The answer to a request to delete a lab: the error, and for a refusal
\* what the message names as blocking ("recursos" or "reservas") and the
\* count it gives.
RespBorrarLab(op, caller, lab_id, error, bloqueo, n) ==
  [op |-> op, caller |-> caller, id |-> lab_id, error |-> error, cal |-> "-",
   bloqueo |-> bloqueo, n |-> n]

\* Tables reglas_horario and excepciones_horario reference laboratorios
\* with ON DELETE CASCADE.
SinLab(tabla, lab_id) == {r \in tabla : r.laboratorio_id # lab_id}
DeLab(tabla, lab_id) == {r \in tabla : r.laboratorio_id = lab_id}

\* DELETE /laboratorios/{lab_id}
delete_laboratorio(caller, lab_id) ==
  LET e == IF RolDe(caller) # "admin" THEN "Forbidden"
           ELSE IF lab_id \notin labs THEN "NotFound"
           ELSE IF DeLab(recursos, lab_id) # {} THEN "ConflictRecursos"
           ELSE IF DeLab(reservas, lab_id) # {} THEN "ConflictReservas"
           ELSE "ok"
  IN /\ labs' = IF e = "ok" THEN labs \ {lab_id} ELSE labs
     /\ labs_cache' = IF e = "ok" THEN labs_cache \ {lab_id} ELSE labs_cache
     /\ reglas' = IF e = "ok" THEN SinLab(reglas, lab_id) ELSE reglas
     /\ excepciones' = IF e = "ok" THEN SinLab(excepciones, lab_id) ELSE excepciones
     /\ ult' = CASE e = "ConflictRecursos" ->
                     RespBorrarLab("delete_laboratorio", caller, lab_id, "Conflict",
                                   "recursos", Cardinality(DeLab(recursos, lab_id)))
                  [] e = "ConflictReservas" ->
                     RespBorrarLab("delete_laboratorio", caller, lab_id, "Conflict",
                                   "reservas", Cardinality(DeLab(reservas, lab_id)))
                  [] OTHER ->
                     RespBorrarLab("delete_laboratorio", caller, lab_id, e, "-", 0)
     /\ horario' = SinHorario
     /\ UNCHANGED <<usuarios, reservas, recursos, prestamos, hoja, req>>

\* try_delete_lab of the labs view, which works on the tables through its
\* own session: it deletes the lab's resources and bookings, then the lab.
\* Table prestamos references recursos with ON DELETE RESTRICT: with a loan
\* of one of the lab's resources stored the first delete raises
\* IntegrityError and everything is rolled back. labs_cache_main belongs to
\* the API process and is not touched.
try_delete_lab(caller, lid) ==
  LET e == IF RolDe(caller) # "admin" THEN "Forbidden"
           ELSE IF lid \notin labs THEN "NotFound"
           ELSE IF \E p \in prestamos : p.recurso_id \in Ids(DeLab(recursos, lid))
                THEN "IntegrityError"
           ELSE "ok"
  IN /\ labs' = IF e = "ok" THEN labs \ {lid} ELSE labs
     /\ recursos' = IF e = "ok" THEN SinLab(recursos, lid) ELSE recursos
     /\ reservas' = IF e = "ok" THEN SinLab(reservas, lid) ELSE reservas
     /\ reglas' = IF e = "ok" THEN SinLab(reglas, lid) ELSE reglas
     /\ excepciones' = IF e = "ok" THEN SinLab(excepciones, lid) ELSE excepciones
     /\ ult' = IF e = "IntegrityError"
               THEN RespBorrarLab("try_delete_lab", caller, lid, "Conflict", "reservas",
                                  Cardinality(DeLab(reservas, lid)))
               ELSE RespBorrarLab("try_delete_lab", caller, lid, e, "-", 0)
     /\ horario' = SinHorario
     /\ UNCHANGED <<usuarios, labs_cache, prestamos, hoja, req>>

\* GET /laboratorios/{lab_id}/horario
GetHorario(caller, lab_id, fecha_inicio, fecha_fin) ==
  /\ \E ordR \in Ordenes(reglas), ordE \in Ordenes(excepciones) :
       \E h \in {get_horario_laboratorio(lab_id, fecha_inicio, fecha_fin, ordR, ordE)} :
          /\ horario' = [status |-> h.status, lab |-> lab_id, desde |-> fecha_inicio,
                          hasta |-> fecha_fin, dias |-> h.dias]
          /\ ult' = Resp("get_horario", caller, NULL,
                         IF h.status = 200 THEN "ok"
                         ELSE IF h.status = 404 THEN "NotFoundLab" ELSE "Error500", "-")
  /\ UNCHANGED <<recursos, prestamos, hoja, usuarios, labs, labs_cache, reglas, excepciones, reservas, req>>

-----------------------------------------------------------------------------
\* loans. A datetime of a loan is a number of minutes after 00:00 of fecha 0.

MinutosPorDia == 1440
\* datetime.time(), datetime.date(), datetime.combine(d, t)
HoraDe(dt) == dt % MinutosPorDia
DiaDe(dt) == dt \div MinutosPorDia
CombinarMin(d, t) == d * MinutosPorDia + t
Min(a, b) == IF a < b THEN a ELSE b
Max(a, b) == IF a > b THEN a ELSE b

\* _normalize_inicio of the loans view
normalize_inicio(now) ==
  IF HoraDe(now) < CLASS_START THEN CombinarMin(DiaDe(now), CLASS_START)
  ELSE IF HoraDe(now) > CLASS_END THEN CombinarMin(DiaDe(now) + 1, CLASS_START)
  ELSE now

\* _allowed_hours_for: max(0, floor(seconds / 3600))
allowed_hours_for(start_dt) ==
  Max(0, (CombinarMin(DiaDe(start_dt), CLASS_END) - start_dt) \div 60)

\* allowed_today of open_solicitar_sheet: capped, then raised to 1.
allowed_today_hoja(inicio) ==
  IF Min(MAX_LOAN_HOURS, allowed_hours_for(inicio)) < 1 THEN 1
  ELSE Min(MAX_LOAN_HOURS, allowed_hours_for(inicio))

\* allowed_today of crear_solicitud: capped.
allowed_today_solicitud(start_dt) == Min(MAX_LOAN_HOURS, allowed_hours_for(start_dt))

\* open_solicitar_sheet(rid) called at the instant now.
open_solicitar_sheet(rid, now) ==
  /\ hoja' = [abierta |-> TRUE, recurso |-> rid, ahora |-> now,
               inicio |-> normalize_inicio(now),
               horas_max |-> Max(1, allowed_today_hoja(normalize_inicio(now)))]
  /\ UNCHANGED <<usuarios, labs, labs_cache, reglas, excepciones, reservas, recursos,
                 prestamos, req, ult, horario>>

Prestamo(recurso_id, usuario_id, inicio, fin, estado) ==
  [recurso_id |-> recurso_id, usuario_id |-> usuario_id, inicio |-> inicio, fin |-> fin,
   estado |-> estado]

\* The check crear_solicitud stops at, or "ok"; hours is the slider's value.
ErrorSolicitud(hours) ==
  IF hoja.recurso = NULL THEN "SinRecurso"
  ELSE IF hoja.recurso \notin Ids(recursos) THEN "NotFound"
  ELSE IF Fila(recursos, hoja.recurso).estado # "disponible" THEN "NoDisponible"
  ELSE IF hours < 1 THEN "DuracionMinima"
  ELSE IF hours > allowed_today_solicitud(hoja.inicio) THEN "ExcedeHoras"
  ELSE IF \/ HoraDe(hoja.inicio + 60 * hours) > CLASS_END
          \/ DiaDe(hoja.inicio + 60 * hours) # DiaDe(hoja.inicio) THEN "ExcedeHorario"
  ELSE "ok"

\* crear_solicitud of the loans view, for the session's user: the button of
\* the open sheet. A success closes the sheet.
crear_solicitud(user_id, hours) ==
  /\ hoja.abierta
  /\ \E e \in {ErrorSolicitud(hours)} :
       IF e # "ok"
       THEN /\ prestamos' = prestamos
            /\ hoja' = hoja
            /\ ult' = Resp("crear_solicitud", user_id, NULL, e, "-")
       ELSE /\ prestamos' = prestamos \cup
                 {ConId(Prestamo(hoja.recurso, user_id, hoja.inicio,
                                 hoja.inicio + 60 * hours, "pendiente"),
                        NuevoId(prestamos))}
            /\ hoja' = [hoja EXCEPT !.abierta = FALSE]
            /\ ult' = Resp("crear_solicitud", user_id, NuevoId(prestamos), "ok", "-")
  /\ horario' = SinHorario
  /\ UNCHANGED <<usuarios, labs, labs_cache, reglas, excepciones, reservas, recursos, req>>

\* The error create_prestamo raises, or "ok".
ErrorPrestamo(prestamo, user) ==
  IF prestamo.recurso_id \notin Ids(recursos) THEN "NotFound"
  ELSE IF prestamo.usuario_id # user /\ RolDe(user) # "admin" THEN "Forbidden"
  ELSE IF prestamo.usuario_id \notin usuarios THEN "NotFoundUsuario"
  ELSE IF prestamo.inicio >= prestamo.fin THEN "BadRequest"
  ELSE "ok"

\* POST /prestamos (cantidad is 1)
create_prestamo(prestamo, user) ==
  /\ \E e \in {ErrorPrestamo(prestamo, user)} :
       IF e # "ok"
       THEN /\ prestamos' = prestamos
            /\ ult' = Resp("create_prestamo", user, NULL, e, "-")
       ELSE /\ prestamos' = prestamos \cup
                 {ConId(Prestamo(prestamo.recurso_id, prestamo.usuario_id, prestamo.inicio,
                                 prestamo.fin, "pendiente"),
                        NuevoId(prestamos))}
            /\ ult' = Resp("create_prestamo", user, NuevoId(prestamos), "ok", "-")
  /\ horario' = SinHorario
  /\ UNCHANGED <<usuarios, labs, labs_cache, reglas, excepciones, reservas, recursos, hoja,
                 req>>

\* table tabla with column estado of row i set to estado.
ConEstado(tabla, i, estado) ==
  {IF r.id = i THEN [r EXCEPT !.estado = estado] ELSE r : r \in tabla}

allowed_states == {"pendiente", "aprobado", "rechazado", "entregado", "devuelto"}

\* prestamo.recurso.estado after update_prestamo_estado moved the loan from
\* old_status to nuevo_estado; actual is its value before.
RecursoTrasEstado(old_status, nuevo_estado, actual) ==
  IF old_status # "devuelto" /\ nuevo_estado = "devuelto" THEN "disponible"
  ELSE IF old_status # "entregado" /\ nuevo_estado = "entregado" THEN "prestado"
  ELSE actual

\* PUT /admin/prestamos/{prestamo_id}/estado
update_prestamo_estado(caller, prestamo_id, nuevo_estado) ==
  LET e == IF RolDe(caller) # "admin" THEN "Forbidden"
           ELSE IF prestamo_id \notin Ids(prestamos) THEN "NotFound"
           ELSE IF nuevo_estado \notin allowed_states THEN "BadRequest"
           ELSE "ok"
  IN /\ IF e # "ok"
        THEN /\ prestamos' = prestamos
             /\ recursos' = recursos
        ELSE /\ prestamos' = ConEstado(prestamos, prestamo_id, nuevo_estado)
             /\ recursos' =
                  ConEstado(recursos, Fila(prestamos, prestamo_id).recurso_id,
                    RecursoTrasEstado(Fila(prestamos, prestamo_id).estado, nuevo_estado,
                      Fila(recursos, Fila(prestamos, prestamo_id).recurso_id).estado))
     /\ ult' = Resp("update_prestamo_estado", caller, prestamo_id, e, "-")
     /\ horario' = SinHorario
     /\ UNCHANGED <<usuarios, labs, labs_cache, reglas, excepciones, reservas, hoja, req>>

\* The buttons admin_solicitud_row shows for a request in estado_val, as
\* the nuevo_estado each one sends.
Botones(estado_val) ==
  IF estado_val = "devuelto" THEN {}
  ELSE ({"aprobado", "rechazado", "entregado"} \ {estado_val}) \cup {"devuelto"}

\* r.estado after admin_cambiar_estado; actual is its value before.
RecursoTrasBoton(nuevo_estado, cambiar_recurso, actual) ==
  IF cambiar_recurso /\ nuevo_estado \in {"aprobado", "entregado"} THEN "prestado"
  ELSE IF cambiar_recurso /\ nuevo_estado = "devuelto" THEN "disponible"
  ELSE actual

\* admin_cambiar_estado of the loans view, called at the instant now.
admin_cambiar_estado(caller, sol_id, nuevo_estado, cambiar_recurso, now) ==
  /\ sol_id \in Ids(prestamos)
  /\ prestamos' =
       {IF s.id = sol_id
        THEN [s EXCEPT !.estado = nuevo_estado,
                       !.fin = IF nuevo_estado = "devuelto" THEN now ELSE @]
        ELSE s : s \in prestamos}
  /\ recursos' =
       ConEstado(recursos, Fila(prestamos, sol_id).recurso_id,
         RecursoTrasBoton(nuevo_estado, cambiar_recurso,
           Fila(recursos, Fila(prestamos, sol_id).recurso_id).estado))
  /\ ult' = Resp("admin_cambiar_estado", caller, sol_id, "ok", "-")
  /\ horario' = SinHorario
  /\ UNCHANGED <<usuarios, labs, labs_cache, reglas, excepciones, reservas, hoja, req>>

-----------------------------------------------------------------------------
\* The API served one request at a time.

Init ==
  /\ usuarios = UserIds
  /\ labs = {1}
  /\ labs_cache = {1}
  /\ reglas = {}
  /\ excepciones = {}
  /\ reservas = {}
  /\ recursos = {}
  /\ prestamos = {}
  /\ hoja = HojaCerrada
  /\ req = [p \in Procs |-> ReqLibre]
  /\ ult = SinResp
  /\ horario = SinHorario

\* The inputs the requests are drawn from: rules of lab 1 for the weekday
\* of fecha 0, a time-bounded closure of lab 1 on fecha 0, request datetimes
\* on fecha 0 up to midnight of fecha 1, given naive or one tick east of UTC.
\* Bookings are requested by the docente and the student for themselves;
\* the calendar call raises (create_calendar_event takes no attendees).
Intervalos == {<<hi, hf>> \in Horas \X Horas : hi < hf}
ReglasApi == {Regla(1, 0, i[1], i[2], TRUE, "disponible") : i \in Intervalos}
ExcepcionesApi ==
  {Excepcion(1, 0, 1, TicksPorDia - 1, FALSE), Excepcion(1, 0, NULL, NULL, FALSE)}
ZonasApi == {NULL, 1}
CallersReserva == {2, 3}
ReservaCreate(usuario_id, lab_id, inicio, fin) ==
  [usuario_id |-> usuario_id, laboratorio_id |-> lab_id, inicio |-> inicio, fin |-> fin]
ReservasApi ==
  {ReservaCreate(u, l, <<Combine(0, ti), z>>, <<Combine(0, tf), z>>) :
     u \in CallersReserva, l \in LabIds, ti \in Horas, tf \in 1..TicksPorDia, z \in ZonasApi}

CrearReserva ==
  /\ Cardinality(reservas) < MaxReservas
  /\ \E reserva \in ReservasApi :
       \E ordR \in Ordenes(reglas), ordE \in Ordenes(excepciones) :
         create_reserva(reserva, reserva.usuario_id, ordR, ordE, "raise")

CancelarReserva ==
  \E caller \in UserIds, reserva_id \in 1..MaxReservas :
    cancel_reserva(caller, reserva_id, "raise")

CrearRegla ==
  /\ Cardinality(reglas) < MaxReglas
  /\ \E regla \in ReglasApi : create_regla_horario(1, regla)
BorrarRegla == \E regla_id \in Ids(reglas) : delete_regla_horario(1, regla_id)
CrearExcepcion ==
  /\ Cardinality(excepciones) < MaxExcepciones
  /\ \E ex \in ExcepcionesApi : create_excepcion_horario(1, ex)
BorrarExcepcion == \E ex_id \in Ids(excepciones) : delete_excepcion_horario(1, ex_id)
BorrarUsuario == \E user_id \in {1, 2} : delete_user(1, user_id)

Next ==
  \/ CrearReserva
  \/ CancelarReserva
  \/ CrearRegla
  \/ BorrarRegla
  \/ CrearExcepcion
  \/ BorrarExcepcion
  \/ BorrarUsuario

Spec == Init /\ [][Next]_vars

-----------------------------------------------------------------------------
\* The booking API with a calendar collaborator that returns an id, returns
\* nothing or raises.

ReglasCalendario ==
  {Regla(1, 0, 0, 1, TRUE, "disponible"), Regla(1, 0, 1, 2, TRUE, "disponible")}
ReservasCalendario ==
  {ReservaCreate(2, 1, <<Combine(0, ti), NULL>>, <<Combine(0, ti + 1), NULL>>) : ti \in 0..1}

CrearReglaCalendario ==
  /\ Cardinality(reglas) < MaxReglas
  /\ \E regla \in ReglasCalendario : create_regla_horario(1, regla)
CrearReservaCalendario ==
  /\ Cardinality(reservas) < MaxReservas
  /\ \E reserva \in ReservasCalendario, cal \in CalendarOutcomes :
       \E ordR \in Ordenes(reglas), ordE \in Ordenes(excepciones) :
         create_reserva(reserva, reserva.usuario_id, ordR, ordE, cal)
CancelarReservaCalendario ==
  \E caller \in {1, 2}, reserva_id \in 1..MaxReservas, cal \in CalendarOutcomes :
    cancel_reserva(caller, reserva_id, cal)

NextCalendario ==
  \/ CrearReglaCalendario
  \/ CrearReservaCalendario
  \/ CancelarReservaCalendario

SpecCalendario == Init /\ [][NextCalendario]_vars

-----------------------------------------------------------------------------
\* Two workers serving POST /reservas at the same time.

ReglasConcurrente ==
  {Regla(1, 0, 0, 2, TRUE, "disponible"), Regla(1, 0, 1, 2, TRUE, "disponible")}
ReservasConcurrente ==
  {ReservaCreate(2, 1, <<Combine(0, ti), NULL>>, <<Combine(0, 2), NULL>>) : ti \in 0..1}

CrearReglaConcurrente ==
  /\ Cardinality(reglas) < MaxReglas
  /\ \E regla \in ReglasConcurrente : create_regla_horario(1, regla)
Validar ==
  \E p \in Procs, reserva \in ReservasConcurrente :
    \E ordR \in Ordenes(reglas), ordE \in Ordenes(excepciones) :
      create_reserva_validar(p, reserva, reserva.usuario_id, ordR, ordE)
ConsultarSolape == \E p \in Procs : create_reserva_solape(p)
Confirmar ==
  /\ Cardinality(reservas) < MaxReservas
  /\ \E p \in Procs : create_reserva_commit(p, "raise")
CancelarReservaConcurrente ==
  \E reserva_id \in 1..MaxReservas : cancel_reserva(2, reserva_id, "raise")

NextConcurrente ==
  \/ CrearReglaConcurrente
  \/ Validar
  \/ ConsultarSolape
  \/ Confirmar
  \/ CancelarReservaConcurrente

SpecConcurrente == Init /\ [][NextConcurrente]_vars

-----------------------------------------------------------------------------
\* The schedule compiler over the configurations an admin can store: rules
\* of lab 1 and general rules for the weekdays of fechas 0 and 1, enabled or
\* not; whole-day exceptions on fecha 0, of lab 1 or general.

ReglasHorario ==
  {Regla(l, d, 0, 1, hab, "disponible") : l \in {NULL, 1}, d \in {0, 1}, hab \in BOOLEAN}
ExcepcionesHorario ==
  {Excepcion(1, 0, NULL, NULL, TRUE), Excepcion(1, 0, NULL, NULL, FALSE),
   Excepcion(NULL, 0, NULL, NULL, FALSE)}
ReservasHorario == {ReservaCreate(2, 1, <<Combine(0, 0), NULL>>, <<Combine(0, 1), NULL>>)}

CrearReglaHorario ==
  /\ Cardinality(reglas) < MaxReglas
  /\ \E regla \in ReglasHorario : create_regla_horario(1, regla)
CrearExcepcionHorario ==
  /\ Cardinality(excepciones) < MaxExcepciones
  /\ \E ex \in ExcepcionesHorario : create_excepcion_horario(1, ex)
CrearReservaHorario ==
  /\ Cardinality(reservas) < MaxReservas
  /\ \E reserva \in ReservasHorario :
       \E ordR \in Ordenes(reglas), ordE \in Ordenes(excepciones) :
         create_reserva(reserva, reserva.usuario_id, ordR, ordE, "raise")
ConsultarHorario ==
  \E lab_id \in LabIds, fecha_inicio \in Fechas, fecha_fin \in Fechas :
    GetHorario(2, lab_id, fecha_inicio, fecha_fin)

NextHorario ==
  \/ CrearReglaHorario
  \/ CrearExcepcionHorario
  \/ CrearReservaHorario
  \/ ConsultarHorario

SpecHorario == Init /\ [][NextHorario]_vars

-----------------------------------------------------------------------------
\* The schedule compiler over rules of every interval of the day, of lab 1
\* or general, for the weekday of fecha 0; the same interval may be stored
\* twice and intervals may overlap (create_regla_horario compares a rule
\* with no other rule).

ReglasRanuras ==
  {Regla(l, 0, i[1], i[2], TRUE, "disponible") : l \in {NULL, 1}, i \in Intervalos}

CrearReglaRanuras ==
  /\ Cardinality(reglas) < MaxReglas
  /\ \E regla \in ReglasRanuras : create_regla_horario(1, regla)
ConsultarRanuras ==
  \E lab_id \in LabIds, fecha_inicio \in Fechas, fecha_fin \in Fechas :
    GetHorario(2, lab_id, fecha_inicio, fecha_fin)

NextRanuras ==
  \/ CrearReglaRanuras
  \/ BorrarRegla
  \/ ConsultarRanuras

SpecRanuras == Init /\ [][NextRanuras]_vars

-----------------------------------------------------------------------------
\* Deleting a lab that has rules, bookings and resources, through the API
\* and through the labs view.

Recurso(lab_id, estado) == [laboratorio_id |-> lab_id, estado |-> estado]
RecursosLaboratorios == {Recurso(1, "disponible")}

CrearRecursoLaboratorios ==
  /\ Cardinality(recursos) < MaxRecursos
  /\ \E recurso \in RecursosLaboratorios : create_recurso(1, recurso)
CrearReservaLaboratorios ==
  /\ Cardinality(reservas) < MaxReservas
  /\ \E reserva \in ReservasCalendario :
       \E ordR \in Ordenes(reglas), ordE \in Ordenes(excepciones) :
         create_reserva(reserva, reserva.usuario_id, ordR, ordE, "raise")
CancelarReservaLaboratorios ==
  \E reserva_id \in 1..MaxReservas : cancel_reserva(2, reserva_id, "raise")
BorrarLaboratorio ==
  \E caller \in {1, 2}, lab_id \in LabIds : delete_laboratorio(caller, lab_id)
BorrarLaboratorioVista ==
  \E caller \in {1, 2}, lid \in LabIds : try_delete_lab(caller, lid)

NextLaboratorios ==
  \/ CrearReglaCalendario
  \/ CrearReservaLaboratorios
  \/ CancelarReservaLaboratorios
  \/ CrearRecursoLaboratorios
  \/ BorrarLaboratorio
  \/ BorrarLaboratorioVista

SpecLaboratorios == Init /\ [][NextLaboratorios]_vars

-----------------------------------------------------------------------------
\* The life of loans: requests of the student through the loans view and
\* through the API, status changes by the admin through both. The view is
\* opened at 08:00 and at 14:00 of fecha 0; the API is sent a loan of one
\* hour and a loan from 08:00 to 08:00 of the next day; returns are stamped
\* at 10:00.

RecursosPrestamos == {Recurso(1, "disponible"), Recurso(1, "mantenimiento")}
AhorasPrestamos == {CombinarMin(0, 8 * 60), CombinarMin(0, 14 * 60)}
PrestamosApi ==
  {Prestamo(1, 3, CombinarMin(0, 8 * 60), CombinarMin(0, 9 * 60), "pendiente"),
   Prestamo(1, 3, CombinarMin(0, 8 * 60), CombinarMin(1, 8 * 60), "pendiente")}

CrearRecursoPrestamos ==
  /\ Cardinality(recursos) < MaxRecursos
  /\ \E recurso \in RecursosPrestamos : create_recurso(1, recurso)
AbrirHoja ==
  \E rid \in Ids(recursos), now \in AhorasPrestamos : open_solicitar_sheet(rid, now)
EnviarSolicitud ==
  /\ Cardinality(prestamos) < MaxPrestamos
  /\ \E hours \in 1..hoja.horas_max : crear_solicitud(3, hours)
CrearPrestamoApi ==
  /\ Cardinality(prestamos) < MaxPrestamos
  /\ \E prestamo \in PrestamosApi : create_prestamo(prestamo, prestamo.usuario_id)
CambiarEstadoApi ==
  \E prestamo_id \in 1..MaxPrestamos, nuevo_estado \in allowed_states :
    update_prestamo_estado(1, prestamo_id, nuevo_estado)
CambiarEstadoVista ==
  \E s \in prestamos : \E nuevo_estado \in Botones(s.estado) :
    admin_cambiar_estado(1, s.id, nuevo_estado, nuevo_estado # "rechazado",
                         CombinarMin(0, 10 * 60))

NextPrestamos ==
  \/ CrearRecursoPrestamos
  \/ AbrirHoja
  \/ EnviarSolicitud
  \/ CrearPrestamoApi
  \/ CambiarEstadoApi
  \/ CambiarEstadoVista

SpecPrestamos == Init /\ [][NextPrestamos]_vars

\* The same with every item created in estado 'disponible'.
NextEstados ==
  \/ CrearRecursoLaboratorios
  \/ AbrirHoja
  \/ EnviarSolicitud
  \/ CrearPrestamoApi
  \/ CambiarEstadoApi
  \/ CambiarEstadoVista

SpecEstados == Init /\ [][NextEstados]_vars

-----------------------------------------------------------------------------
\* The request sheet of the loans view opened at every half hour of the
\* days of Fechas, and the first request sent from it.

MediasHoras == {CombinarMin(d, 30 * k) : d \in Fechas, k \in 0..47}

CrearRecursoVentana ==
  /\ Cardinality(recursos) < MaxRecursos
  /\ create_recurso(1, Recurso(1, "disponible"))
AbrirHojaVentana ==
  \E rid \in Ids(recursos), now \in MediasHoras : open_solicitar_sheet(rid, now)
EnviarSolicitudVentana ==
  /\ prestamos = {}
  /\ \E hours \in 1..hoja.horas_max : crear_solicitud(3, hours)

NextVentana ==
  \/ CrearRecursoVentana
  \/ AbrirHojaVentana
  \/ EnviarSolicitudVentana

SpecVentana == Init /\ [][NextVentana]_vars

-----------------------------------------------------------------------------
\* The schedule compiler over time-bounded exceptions of lab 1 on fecha 0,
\* closing or enabling, of every interval of the day, next to rules of every
\* interval and a booking of the first tick.

ExcepcionesParciales ==
  {Excepcion(1, 0, i[1], i[2], hab) : i \in Intervalos, hab \in BOOLEAN}

CrearExcepcionParcial ==
  /\ Cardinality(excepciones) < MaxExcepciones
  /\ \E ex \in ExcepcionesParciales : create_excepcion_horario(1, ex)
CrearReservaParcial ==
  /\ Cardinality(reservas) < MaxReservas
  /\ \E reserva \in ReservasHorario :
       \E ordR \in Ordenes(reglas), ordE \in Ordenes(excepciones) :
         create_reserva(reserva, reserva.usuario_id, ordR, ordE, "raise")

NextExcepciones ==
  \/ CrearRegla
  \/ CrearExcepcionParcial
  \/ CrearReservaParcial
  \/ ConsultarHorario

SpecExcepciones == Init /\ [][NextExcepciones]_vars

-----------------------------------------------------------------------------
\* The administration of rules and exceptions: create, update and delete.
\* An update sets one time field to a tick of the day or, for exceptions,
\* to null; it disables a rule; or it sets nothing.

ActualizacionesRegla ==
  {[hora_inicio |-> h] : h \in Horas} \cup {[hora_fin |-> h] : h \in Horas}
    \cup {[es_habilitado |-> FALSE], << >>}
ActualizacionesExcepcion ==
  {[hora_inicio |-> h] : h \in Horas \cup {NULL}}
    \cup {[hora_fin |-> h] : h \in Horas \cup {NULL}} \cup {<< >>}

ActualizarRegla ==
  \E regla_id \in 1..MaxReglas, update_data \in ActualizacionesRegla :
    update_regla_horario(1, regla_id, update_data)
ActualizarExcepcion ==
  \E excepcion_id \in 1..MaxExcepciones, update_data \in ActualizacionesExcepcion :
    update_excepcion_horario(1, excepcion_id, update_data)

NextAdminReglas ==
  \/ CrearRegla
  \/ ActualizarRegla
  \/ BorrarRegla

SpecAdminReglas == Init /\ [][NextAdminReglas]_vars

NextAdminExcepciones ==
  \/ CrearExcepcion
  \/ ActualizarExcepcion
  \/ BorrarExcepcion

SpecAdminExcepciones == Init /\ [][NextAdminExcepciones]_vars

-----------------------------------------------------------------------------
\* The schedule compiler over a table reglas_horario that also holds rows
\* whose hora_inicio or hora_fin is not a time. create_regla_horario and
\* update_regla_horario cannot store such a row (the body is parsed as
\* time and the columns are NOT NULL); the rows are written to the table
\* by another client of the database, and the compiler's isinstance test
\* is there for them. Rules are for the weekdays of fecha 0 and fecha 1.

ReglasValidas ==
  {Regla(1, d, i[1], i[2], TRUE, "disponible") : d \in Fechas, i \in {<<0, 1>>, <<1, 2>>}}
ReglasInvalidas ==
  {Regla(1, d, NULL, 1, TRUE, "disponible") : d \in Fechas}
    \cup {Regla(1, d, 0, NULL, TRUE, "disponible") : d \in Fechas}

\* INSERT INTO reglas_horario by another client of the database.
InsertarFilaRegla(regla) ==
  /\ reglas' = reglas \cup {ConId(regla, NuevoId(reglas))}
  /\ ult' = SinResp
  /\ horario' = SinHorario
  /\ UNCHANGED <<recursos, prestamos, hoja, usuarios, labs, labs_cache, excepciones, reservas, req>>

CrearReglaValida ==
  /\ Cardinality(reglas) < MaxReglas + 1
  /\ \E regla \in ReglasValidas : create_regla_horario(1, regla)
InsertarReglaInvalida ==
  /\ Cardinality(reglas) < MaxReglas + 1
  /\ \A r \in reglas : HorasValidas(r)
  /\ \E regla \in ReglasInvalidas : InsertarFilaRegla(regla)
ConsultarInvalidas ==
  \E fecha_inicio \in Fechas, fecha_fin \in Fechas :
    GetHorario(2, 1, fecha_inicio, fecha_fin)

NextInvalidas ==
  \/ CrearReglaValida
  \/ InsertarReglaInvalida
  \/ BorrarRegla
  \/ ConsultarInvalidas

SpecInvalidas == Init /\ [][NextInvalidas]_vars

-----------------------------------------------------------------------------
\* Properties of the API served one request at a time (Spec).

\* The claims' own reading of the store.
HaySlotExacto(lab_id, inicio, fin, ordR, ordE) ==
  LET h == get_horario_laboratorio(lab_id, FechaDe(inicio), FechaDe(inicio), ordR, ordE)
  IN /\ h.status = 200
     /\ \E i \in 1..Len(h.dias[FechaDe(inicio)]) :
          /\ h.dias[FechaDe(inicio)][i].inicio = inicio
          /\ h.dias[FechaDe(inicio)][i].fin = fin
          /\ h.dias[FechaDe(inicio)][i].tipo = "disponible"

HaySolape(lab_id, inicio, fin) ==
  \E r \in reservas : /\ r.laboratorio_id = lab_id /\ r.estado = "activa"
                      /\ r.inicio < fin /\ inicio < r.fin

\* C2: with requests served one at a time, while a booking is active every
\* further create_reserva for its lab and its interval, sent by a caller
\* allowed to book and for an existing user, fails with Conflict or
\* SlotUnavailable.
C2_SegundaReservaFalla ==
  \A r \in reservas : r.estado = "activa" =>
    \A user \in {1, 2}, u \in usuarios :
      \A ordR \in Ordenes(reglas), ordE \in Ordenes(excepciones) :
        ErrorReserva(ReservaCreate(u, r.laboratorio_id, <<r.inicio, NULL>>, <<r.fin, NULL>>),
                     user, ordR, ordE) \in {"Conflict", "SlotUnavailable"}

\* C3: every row create_reserva adds has the interval, at both ends, of a
\* slot of kind "disponible" that get_horario_laboratorio returns for the
\* date of its start in the state the request was served in.
C3_SoloSlotExacto ==
  [][\A r \in reservas' : r.id \notin Ids(reservas) =>
       \E ordR \in Ordenes(reglas), ordE \in Ordenes(excepciones) :
         HaySlotExacto(r.laboratorio_id, r.inicio, r.fin, ordR, ordE)]_vars

\* A booking was created on a slot two ticks long while a shorter rule was
\* stored too: requests for a part of the slot were possible.
C3_Testigo ==
  /\ ult.op = "create_reserva" /\ ult.error = "ok"
  /\ \E r \in reservas : r.id = ult.id /\ r.fin - r.inicio = 2
  /\ \E g \in reglas : g.hora_fin - g.hora_inicio = 1

\* The preconditions of create_reserva and whether a request fails them.
FallaC4(p, reserva, user, ordR, ordE) ==
  LET inicio == ToUTC(reserva.inicio)
      fin == ToUTC(reserva.fin)
  IN CASE p = "rol" -> RolDe(user) \notin {"admin", "docente"}
       [] p = "lab" -> reserva.laboratorio_id \notin (labs_cache \cup labs)
       [] p = "usuario" -> reserva.usuario_id \notin usuarios
       [] p = "intervalo" -> ~(inicio < fin)
       [] p = "slot" -> ~HaySlotExacto(reserva.laboratorio_id, inicio, fin, ordR, ordE)
       [] p = "solape" -> HaySolape(reserva.laboratorio_id, inicio, fin)

\* The errors each precondition is reported with.
ErroresC4(p) ==
  CASE p = "rol" -> {"Forbidden"}
    [] p = "lab" -> {"NotFoundLab"}
    [] p = "usuario" -> {"NotFoundUsuario"}
    [] p = "intervalo" -> {"InvalidInterval"}
    [] p = "slot" -> {"SlotUnavailable", "NotFoundLab", "Error500"}
    [] p = "solape" -> {"Conflict"}

\* The index of the first precondition of orden, from i on, that the
\* request fails; 0 when it fails none.
RECURSIVE PrimerFallo(_, _, _, _, _, _)
PrimerFallo(orden, i, reserva, user, ordR, ordE) ==
  IF i > Len(orden) THEN 0
  ELSE IF FallaC4(orden[i], reserva, user, ordR, ordE) THEN i
  ELSE PrimerFallo(orden, i + 1, reserva, user, ordR, ordE)

\* For every request of ReservasApi, sent by the user it books for, the
\* error is the one of the first precondition of orden the request fails,
\* and "ok" when it fails none.
PrimerFalloDecide(orden) ==
  \A ordR \in Ordenes(reglas), ordE \in Ordenes(excepciones) :
    \A reserva \in ReservasApi :
      LET user == reserva.usuario_id
          e == ErrorReserva(reserva, user, ordR, ordE)
          i == PrimerFallo(orden, 1, reserva, user, ordR, ordE)
      IN IF i = 0 THEN e = "ok" ELSE e \in ErroresC4(orden[i])

C5_ErrorNoPersiste ==
  [][(ult'.op = "create_reserva" /\ ult'.error # "ok") => reservas' = reservas]_vars

\* create_reserva answered Conflict while bookings are stored.
C5_Testigo ==
  ult.op = "create_reserva" /\ ult.error = "Conflict" /\ reservas # {}

\* C6: cancel_reserva answers ok and sets estado to "cancelada" exactly when
\* the row exists, the caller is its owner or an admin, and its estado is
\* "activa"; otherwise it answers with an error and table reservas is as
\* it was.
C6_CancelarSiYSoloSi ==
  [][ult'.op = "cancel_reserva" =>
       LET c == ult'.caller
           i == ult'.id
           permitido == /\ i \in Ids(reservas)
                        /\ Fila(reservas, i).usuario_id = c \/ RolDe(c) = "admin"
                        /\ Fila(reservas, i).estado = "activa"
       IN IF permitido
          THEN /\ ult'.error = "ok"
               /\ Ids(reservas') = Ids(reservas)
               /\ Fila(reservas', i).estado = "cancelada"
               /\ \A r \in reservas : r.id # i => r \in reservas'
          ELSE /\ ult'.error # "ok"
               /\ reservas' = reservas]_vars

\* The admin cancelled the active booking of another user.
C6_Testigo ==
  /\ ult.op = "cancel_reserva" /\ ult.error = "ok" /\ RolDe(ult.caller) = "admin"
  /\ \E r \in reservas : r.id = ult.id /\ r.usuario_id # ult.caller /\ r.estado = "cancelada"

\* C8: no step removes a row of table reservas, and the only change of a
\* row's estado is from "activa" to "cancelada".
C8_ReservaNuncaSeBorra ==
  [][\A r \in reservas : \E s \in reservas' :
        /\ s.id = r.id
        /\ s.estado = r.estado \/ (r.estado = "activa" /\ s.estado = "cancelada")]_vars

-----------------------------------------------------------------------------
\* Properties of the calendar collaborator's outcomes (SpecCalendario).

\* C7: whenever create_reserva or cancel_reserva called the calendar
\* collaborator, whatever it did (returned an id, returned nothing, raised),
\* the answer is a success and the row has the new estado: "activa" for the
\* row created, "cancelada" for the row cancelled.
C7_CalendarioNoCambiaResultado ==
  [][ult'.cal # "-" =>
       /\ ult'.error = "ok"
       /\ ult'.op = "create_reserva" =>
            /\ ult'.id \notin Ids(reservas)
            /\ \E r \in reservas' : r.id = ult'.id /\ r.estado = "activa"
       /\ ult'.op = "cancel_reserva" =>
            /\ \E r \in reservas : r.id = ult'.id /\ r.estado = "activa"
            /\ \E r \in reservas' : r.id = ult'.id /\ r.estado = "cancelada"]_vars

\* A cancellation during which the calendar call raised: the booking is
\* cancelled and still carries the event id an earlier successful calendar
\* call gave it.
C7_Testigo ==
  /\ ult.op = "cancel_reserva" /\ ult.cal = "raise" /\ ult.error = "ok"
  /\ \E r \in reservas : r.id = ult.id /\ r.estado = "cancelada" /\ r.google_event_id = "ev"

-----------------------------------------------------------------------------
\* Properties of concurrent requests (SpecConcurrente).

\* C1: no two active bookings of the same lab have overlapping intervals.
C1_SinSolapeEntreActivas ==
  \A r, s \in reservas :
    (r.id # s.id /\ r.laboratorio_id = s.laboratorio_id
       /\ r.estado = "activa" /\ s.estado = "activa")
    => ~(r.inicio < s.fin /\ s.inicio < r.fin)

-----------------------------------------------------------------------------
\* Properties of the schedule compiler (SpecHorario). horario is the answer
\* of the last GET, computed from the store of the present state.

\* C9: when the store holds a whole-day exception of the lab with
\* es_habilitado false on a date of the answer, the slot list of that date is
\* empty.
C9_CierreDiaCompleto ==
  horario.status = 200 =>
    \A f \in horario.desde..horario.hasta :
      (\E ex \in excepciones : /\ ex.laboratorio_id = horario.lab /\ ex.fecha = f
                               /\ ex.hora_inicio = NULL /\ ~ex.es_habilitado)
      => horario.dias[f] = << >>

\* The rules of lab_id, or the general rules with NULL, for the weekday of f.
ReglasDe(lab_id, f) ==
  {r \in reglas : r.laboratorio_id = lab_id /\ r.dia_semana = Weekday(f)}

\* The ids of the rules the slots of date f of the answer were made from.
ReglasUsadas(f) == {horario.dias[f][i].regla : i \in 1..Len(horario.dias[f])}

\* C10: for every date of the answer, when the lab has a rule of its own
\* for the weekday (enabled or not) no slot comes from a general rule; when
\* it has none, and no whole-day exception is stored for the date, the slots
\* come from exactly the general rules of the weekday.
C10_ReglasPropiasReemplazan ==
  horario.status = 200 =>
    \A f \in horario.desde..horario.hasta :
      /\ ReglasDe(horario.lab, f) # {} =>
           ReglasUsadas(f) \cap Ids(ReglasDe(NULL, f)) = {}
      /\ (ReglasDe(horario.lab, f) = {}
            /\ ~\E ex \in excepciones : ex.fecha = f /\ ex.hora_inicio = NULL)
         => ReglasUsadas(f) = Ids(ReglasDe(NULL, f))

\* An answer for a date on which the lab has a disabled rule of its own
\* and a general rule is stored too, with a slot in the answer.
C10_Testigo ==
  /\ horario.status = 200 /\ horario.desde = 0 /\ horario.hasta = 0
  /\ \E r \in ReglasDe(horario.lab, 0) : ~r.es_habilitado
  /\ ReglasDe(NULL, 0) # {}
  /\ horario.dias[0] # << >>

\* The whole-day exceptions stored for date f: of lab_id, or the general
\* ones with NULL.
DiaCompletoDe(lab_id, f) ==
  {ex \in excepciones : ex.laboratorio_id = lab_id /\ ex.fecha = f /\ ex.hora_inicio = NULL}

\* C20: for every date of the answer on which a general whole-day exception
\* with es_habilitado false is stored: when the lab has no whole-day
\* exception of its own on the date, the slot list of the date is empty;
\* when the lab's own whole-day exceptions on the date all have
\* es_habilitado true, the slots are those of the rules of the weekday.
C20_CierreGlobal ==
  horario.status = 200 =>
    \A f \in horario.desde..horario.hasta :
      (\E g \in DiaCompletoDe(NULL, f) : ~g.es_habilitado) =>
        /\ DiaCompletoDe(horario.lab, f) = {} => horario.dias[f] = << >>
        /\ (/\ DiaCompletoDe(horario.lab, f) # {}
            /\ \A ex \in DiaCompletoDe(horario.lab, f) : ex.es_habilitado)
           => ReglasUsadas(f) = Ids(IF ReglasDe(horario.lab, f) # {}
                                    THEN ReglasDe(horario.lab, f)
                                    ELSE ReglasDe(NULL, f))

-----------------------------------------------------------------------------
\* Properties of the slot lists (SpecRanuras).

\* C11: in every answer of get_horario_laboratorio, the slots of each date
\* come in non-decreasing order of their start.
C11_SlotsOrdenados ==
  horario.status = 200 =>
    \A f \in horario.desde..horario.hasta :
      \A i, j \in 1..Len(horario.dias[f]) :
        i < j => horario.dias[f][i].inicio <= horario.dias[f][j].inicio

\* An answer with two slots of different starts in which the first slot
\* comes from the rule stored last.
C11_Testigo ==
  /\ horario.status = 200 /\ horario.desde = 0
  /\ Len(horario.dias[0]) = 2
  /\ horario.dias[0][1].inicio < horario.dias[0][2].inicio
  /\ horario.dias[0][1].regla > horario.dias[0][2].regla

\* C12: in every answer of get_horario_laboratorio, no two slots of a date
\* have overlapping intervals [inicio, fin).
C12_SlotsSinSolape ==
  horario.status = 200 =>
    \A f \in horario.desde..horario.hasta :
      \A i, j \in 1..Len(horario.dias[f]) :
        i # j => ~(/\ horario.dias[f][i].inicio < horario.dias[f][j].fin
                   /\ horario.dias[f][j].inicio < horario.dias[f][i].fin)

-----------------------------------------------------------------------------
\* Properties of lab deletion (SpecLaboratorios).

ReservasActivasDe(lab_id) == {r \in DeLab(reservas, lab_id) : r.estado = "activa"}

\* C19: a request to delete a lab that has an active booking, sent by an
\* admin, is refused with the number of the lab's active bookings, and the
\* lab and its bookings are as before; and no step removes a lab together
\* with bookings of it.
C19_BorrarLabConReservas ==
  [][/\ (/\ ult'.op \in {"delete_laboratorio", "try_delete_lab"}
         /\ RolDe(ult'.caller) = "admin"
         /\ ReservasActivasDe(ult'.id) # {})
        => /\ ult'.error = "Conflict"
           /\ ult'.bloqueo = "reservas"
           /\ ult'.n = Cardinality(ReservasActivasDe(ult'.id))
           /\ ult'.id \in labs'
           /\ DeLab(reservas', ult'.id) = DeLab(reservas, ult'.id)
      /\ \A l \in labs \ labs' : DeLab(reservas, l) = {}]_vars

-----------------------------------------------------------------------------
\* Properties of loans (SpecPrestamos).

EstadosTerminales == {"rechazado", "devuelto"}
Transiciones == {"update_prestamo_estado", "admin_cambiar_estado"}

\* C13: a status change requested for a loan whose estado is "rechazado" or
\* "devuelto" leaves the estado of the loan and table recursos as they
\* were.
C13_TerminalNoCambia ==
  [][(/\ ult'.op \in Transiciones
      /\ ult'.id \in Ids(prestamos)
      /\ Fila(prestamos, ult'.id).estado \in EstadosTerminales)
     => /\ Fila(prestamos', ult'.id).estado = Fila(prestamos, ult'.id).estado
        /\ recursos' = recursos]_vars

\* C14: after a status change that moved a loan from "pendiente" to
\* "aprobado", the estado of the loan's resource is "prestado".
C14_AprobarMarcaPrestado ==
  [][(/\ ult'.op \in Transiciones
      /\ ult'.id \in Ids(prestamos)
      /\ Fila(prestamos, ult'.id).estado = "pendiente"
      /\ Fila(prestamos', ult'.id).estado = "aprobado")
     => Fila(recursos', Fila(prestamos, ult'.id).recurso_id).estado = "prestado"]_vars

\* C15: every loan a step adds is for a resource whose estado was
\* "disponible" when the request was served.
C15_SoloRecursoDisponible ==
  [][\A p \in prestamos' :
       p.id \notin Ids(prestamos) => Fila(recursos, p.recurso_id).estado = "disponible"]_vars

\* allowed_hours as the loan rules define it for a start inside the daily
\* window: the whole hours up to CLASS_END, at most MAX_LOAN_HOURS, at
\* least 1.
HorasPermitidas(inicio) ==
  Max(1, Min(MAX_LOAN_HOURS, (CLASS_END - HoraDe(inicio)) \div 60))

\* C16: every loan a step adds lasts at most the allowed hours of its
\* start, which are at most MAX_LOAN_HOURS, and ends on the day of its start
\* and not after CLASS_END.
C16_DuracionDentroDeVentana ==
  [][\A p \in prestamos' :
       p.id \notin Ids(prestamos) =>
         /\ p.fin - p.inicio <= 60 * HorasPermitidas(p.inicio)
         /\ p.fin - p.inicio <= 60 * MAX_LOAN_HOURS
         /\ DiaDe(p.fin) = DiaDe(p.inicio)
         /\ HoraDe(p.fin) <= CLASS_END]_vars

-----------------------------------------------------------------------------
\* Properties of the request sheet (SpecVentana).

\* C17: the start the sheet proposes when opened at now is CLASS_START of
\* the same day when now is before CLASS_START, CLASS_START of the next day
\* when now is at or after CLASS_END, and now otherwise.
C17_InicioPropuesto ==
  hoja.ahora # NULL =>
    hoja.inicio =
      IF HoraDe(hoja.ahora) < CLASS_START THEN CombinarMin(DiaDe(hoja.ahora), CLASS_START)
      ELSE IF HoraDe(hoja.ahora) >= CLASS_END
           THEN CombinarMin(DiaDe(hoja.ahora) + 1, CLASS_START)
      ELSE hoja.ahora

\* C18: for a proposed start from CLASS_START up to, not including,
\* CLASS_END, the hours the sheet offers and the hours crear_solicitud
\* validates against are both the allowed hours of the start.
C18_HorasOfrecidasYValidadas ==
  (/\ hoja.ahora # NULL
   /\ CLASS_START <= HoraDe(hoja.inicio) /\ HoraDe(hoja.inicio) < CLASS_END)
  => /\ hoja.horas_max = HorasPermitidas(hoja.inicio)
     /\ allowed_today_solicitud(hoja.inicio) = HorasPermitidas(hoja.inicio)

-----------------------------------------------------------------------------
\* Properties of time-bounded exceptions (SpecExcepciones).

\* A time-bounded exception of the lab of the answer, with es_habilitado
\* false, on date f, contains the interval [inicio, fin).
CubiertoPorCierre(f, inicio, fin) ==
  \E ex \in excepciones :
    /\ ex.laboratorio_id = horario.lab /\ ex.fecha = f
    /\ ex.hora_inicio # NULL /\ ex.hora_fin # NULL /\ ~ex.es_habilitado
    /\ Combine(f, ex.hora_inicio) <= inicio /\ fin <= Combine(f, ex.hora_fin)

\* An active booking of the lab of the answer starts at inicio.
ReservadoEn(inicio) ==
  \E r \in reservas :
    r.laboratorio_id = horario.lab /\ r.estado # "cancelada" /\ r.inicio = inicio

\* C21: every GET horario for a stored lab answers 200, and in the answer a
\* slot of an enabled rule that is not booked has a kind other than
\* "disponible" when a closing time-bounded exception contains it, and the
\* kind "disponible" otherwise.
C21_ExcepcionParcialReclasifica ==
  (horario.status # 0 /\ horario.lab \in labs) =>
    /\ horario.status = 200
    /\ \A f \in DOMAIN horario.dias : \A i \in 1..Len(horario.dias[f]) :
         ~ReservadoEn(horario.dias[f][i].inicio) =>
           IF CubiertoPorCierre(f, horario.dias[f][i].inicio, horario.dias[f][i].fin)
           THEN horario.dias[f][i].tipo # "disponible"
           ELSE horario.dias[f][i].tipo = "disponible"

-----------------------------------------------------------------------------
\* Properties of the administration of rules (SpecAdminReglas) and of
\* exceptions (SpecAdminExcepciones).

\* C22: every stored rule has hora_inicio < hora_fin.
C22_ReglasBienFormadas ==
  \A r \in reglas : r.hora_inicio < r.hora_fin

\* C23: every stored exception has both hora_inicio and hora_fin null, or
\* both not null with hora_inicio < hora_fin.
C23_ExcepcionesBienFormadas ==
  \A ex \in excepciones :
    \/ ex.hora_inicio = NULL /\ ex.hora_fin = NULL
    \/ ex.hora_inicio # NULL /\ ex.hora_fin # NULL /\ ex.hora_inicio < ex.hora_fin

-----------------------------------------------------------------------------
\* Properties of the compiler over malformed rules (SpecInvalidas).

\* The well-formed rules that apply to lab_id on the weekday of fecha.
ReglasBienFormadasDe(lab_id, fecha) ==
  {r \in filas_por_dia(lab_id, Weekday(fecha)) : HorasValidas(r)}

C24_SoloHoraFinInvalida ==
  (horario.status # 0 /\ horario.lab \in labs /\ \A r \in reglas : r.hora_inicio # NULL) =>
    /\ horario.status = 200
    /\ \A f \in horario.desde..horario.hasta :
         {horario.dias[f][i].regla : i \in 1..Len(horario.dias[f])}
           = {r.id : r \in ReglasBienFormadasDe(horario.lab, f)}

-----------------------------------------------------------------------------
\* Properties of the slots against the bookings (Spec, SpecHorario).

\* An active booking of lab_id overlaps [inicio, fin).
SolapaReservaActiva(lab_id, inicio, fin) ==
  \E r \in reservas : /\ r.laboratorio_id = lab_id /\ r.estado = "activa"
                      /\ r.inicio < fin /\ inicio < r.fin

\* No slot of the answer h for lab_id that has tipo 'disponible' overlaps an
\* active booking of the lab.
DisponiblesLibres(h, lab_id) ==
  h.status = 200 =>
    \A f \in DOMAIN h.dias : \A i \in 1..Len(h.dias[f]) :
      h.dias[f][i].tipo = "disponible"
        => ~SolapaReservaActiva(lab_id, h.dias[f][i].inicio, h.dias[f][i].fin)

\* C25: in every reachable state, for every lab and every order in which
\* the queries return their rows, no slot that get_horario_laboratorio
\* reports as 'disponible' overlaps an active booking of the lab.
C25_DisponibleSinReservaActiva ==
  \A lab_id \in labs : \A ordR \in Ordenes(reglas), ordE \in Ordenes(excepciones) :
    DisponiblesLibres(get_horario_laboratorio(lab_id, 0, NumFechas - 1, ordR, ordE), lab_id)

\* The request of the docente for exactly the interval of slot in lab_id.
ReservaDeSlot(lab_id, slot) ==
  ReservaCreate(2, lab_id, <<slot.inicio, NULL>>, <<slot.fin, NULL>>)

\* In the answer h for lab_id, a slot made from a rule with es_habilitado
\* false is not 'disponible' and a request for its interval is refused.
DeshabilitadasNoReservables(h, lab_id, ordR, ordE) ==
  h.status = 200 =>
    \A f \in DOMAIN h.dias : \A i \in 1..Len(h.dias[f]) :
      ~Fila(reglas, h.dias[f][i].regla).es_habilitado
        => /\ h.dias[f][i].tipo # "disponible"
           /\ ErrorReserva(ReservaDeSlot(lab_id, h.dias[f][i]), 2, ordR, ordE) # "ok"

\* C26: in every reachable state, a slot that get_horario_laboratorio makes
\* from a rule with es_habilitado false has a tipo other than 'disponible',
\* whatever the rule's tipo_intervalo, and create_reserva for exactly the
\* slot's interval is refused.
C26_ReglaDeshabilitadaNoReservable ==
  \A lab_id \in labs : \A ordR \in Ordenes(reglas), ordE \in Ordenes(excepciones) :
    DeshabilitadasNoReservables(
      get_horario_laboratorio(lab_id, 0, NumFechas - 1, ordR, ordE), lab_id, ordR, ordE)

\* A booking stored by create_reserva for the interval of a rule of the lab
\* with es_habilitado false.
C26_ReservaEnReglaDeshabilitada ==
  \E r \in reservas : \E regla \in reglas :
    /\ r.estado = "activa" /\ regla.laboratorio_id = r.laboratorio_id
    /\ ~regla.es_habilitado
    /\ r.inicio = Combine(FechaDe(r.inicio), regla.hora_inicio)
    /\ r.fin = Combine(FechaDe(r.inicio), regla.hora_fin)
    /\ Weekday(FechaDe(r.inicio)) = regla.dia_semana
    /\ \A otra \in reglas : otra.laboratorio_id = r.laboratorio_id => ~otra.es_habilitado

-----------------------------------------------------------------------------
\* Properties of the item's estado against its loans (SpecEstados).

PrestamosDe(recurso_id) == {p \in prestamos : p.recurso_id = recurso_id}

\* C27: in every reachable state in which the items were created
\* 'disponible', an item with estado 'prestado' has a loan in estado
\* 'aprobado' or 'entregado', and an item whose loans are all 'pendiente',
\* 'rechazado' or 'devuelto' has estado 'disponible'.
C27_PrestadoSoloConPrestamoVivo ==
  \A r \in recursos :
    /\ r.estado = "prestado"
         => \E p \in PrestamosDe(r.id) : p.estado \in {"aprobado", "entregado"}
    /\ (\A p \in PrestamosDe(r.id) : p.estado \in {"pendiente", "rechazado", "devuelto"})
         => r.estado = "disponible"

-----------------------------------------------------------------------------
\* Properties of the answer's dates (SpecExcepciones).

\* C28: every query of the schedule of a stored lab answers 200 with
\* exactly one entry for each date from fecha_inicio to fecha_fin, and with
\* no entry when fecha_inicio is after fecha_fin.
C28_UnaEntradaPorFecha ==
  (horario.status # 0 /\ horario.lab \in labs) =>
    /\ horario.status = 200
    /\ DOMAIN horario.dias = horario.desde..horario.hasta

-----------------------------------------------------------------------------
\* Properties of cancelling (Spec).

\* The store's rules and exceptions make [r.inicio, r.fin) a slot of the lab
\* of booking r that no exception closes: a rule of the lab's list for the
\* weekday has exactly that interval and the kind 'disponible', and no
\* exception of the date with es_habilitado false is a whole-day one or
\* contains the interval.
SlotConfigurado(r) ==
  /\ r.laboratorio_id \in labs
  /\ \E regla \in filas_por_dia(r.laboratorio_id, Weekday(FechaDe(r.inicio))) :
       /\ HorasValidas(regla) /\ TipoRegla(regla) = "disponible"
       /\ r.inicio = Combine(FechaDe(r.inicio), regla.hora_inicio)
       /\ r.fin = Combine(FechaDe(r.inicio), regla.hora_fin)
  /\ ~\E ex \in excepciones :
       /\ ex.fecha = FechaDe(r.inicio) /\ ~ex.es_habilitado
       /\ \/ ex.hora_inicio = NULL
          \/ /\ ex.hora_fin # NULL
             /\ Combine(ex.fecha, ex.hora_inicio) <= r.inicio
             /\ r.fin <= Combine(ex.fecha, ex.hora_fin)

\* r is the only active booking of its lab that overlaps its interval.
UnicaActiva(r) ==
  \A q \in reservas :
    (q.id # r.id /\ q.laboratorio_id = r.laboratorio_id /\ q.estado = "activa")
      => ~(q.inicio < r.fin /\ r.inicio < q.fin)

\* The schedule of the date of booking r lists its interval as
\* 'disponible', and a request of r's user for the same interval passes
\* every check of create_reserva.
SlotLibreDe(r, ordR, ordE) ==
  /\ slot_valido_encontrado(
       get_horario_laboratorio(r.laboratorio_id, FechaDe(r.inicio), FechaDe(r.inicio),
                               ordR, ordE), r.inicio, r.fin)
  /\ ErrorReserva(ReservaCreate(r.usuario_id, r.laboratorio_id,
                                <<r.inicio, NULL>>, <<r.fin, NULL>>),
                  r.usuario_id, ordR, ordE) = "ok"

\* C29: in the state cancel_reserva leaves when it succeeds on the only
\* active booking of a slot that the stored rules and exceptions define and
\* do not close, the schedule lists the slot as 'disponible' and
\* create_reserva for the same interval would succeed.
CanceladaLibera(r) ==
  (/\ UnicaActiva(r)
   /\ SlotConfigurado(r)
   /\ r.usuario_id \in usuarios
   /\ RolDe(r.usuario_id) \in {"admin", "docente"})
  => \A ordR \in Ordenes(reglas), ordE \in Ordenes(excepciones) : SlotLibreDe(r, ordR, ordE)

C29_CancelarLiberaSlot ==
  (ult.op = "cancel_reserva" /\ ult.error = "ok") => CanceladaLibera(Fila(reservas, ult.id))

\* The same when the date of the cancelled booking has no time-bounded
\* exception with es_habilitado false (none of its slots reaches ex.tipo).
C29_SinCierreParcial ==
  (/\ ult.op = "cancel_reserva" /\ ult.error = "ok"
   /\ ~\E ex \in excepciones :
        /\ ex.fecha = FechaDe(Fila(reservas, ult.id).inicio)
        /\ ex.hora_inicio # NULL /\ ~ex.es_habilitado)
  => CanceladaLibera(Fila(reservas, ult.id))

-----------------------------------------------------------------------------
\* Properties of bookings for a lab that is not stored (SpecLaboratorios).

\* C30: in every reachable state, whatever labs_cache_main holds, every
\* request of a docente or an admin to book a lab that is not in table
\* laboratorios is refused with the 404 of the lab or of the user; a
\* refused request stores nothing.
C30_LabAusenteNotFound ==
  \A reserva \in ReservasApi :
    (reserva.laboratorio_id \notin labs
       /\ RolDe(reserva.usuario_id) \in {"admin", "docente"})
    => \A ordR \in Ordenes(reglas), ordE \in Ordenes(excepciones) :
         ErrorReserva(reserva, reserva.usuario_id, ordR, ordE)
           \in {"NotFoundLab", "NotFoundUsuario"}

\* The same for the requests whose inicio is before their fin.
C30_IntervaloValido ==
  \A reserva \in ReservasApi :
    (reserva.laboratorio_id \notin labs
       /\ RolDe(reserva.usuario_id) \in {"admin", "docente"}
       /\ ToUTC(reserva.inicio) < ToUTC(reserva.fin))
    => \A ordR \in Ordenes(reglas), ordE \in Ordenes(excepciones) :
         ErrorReserva(reserva, reserva.usuario_id, ordR, ordE)
           \in {"NotFoundLab", "NotFoundUsuario"}

====
